---------------------------- MODULE Spec2Model ----------------------------
(***************************************************************************)
(* A model of the front end of otto (butland/otto):                        *)
(*   - parser/regexp.go : TransformRegExp and the _RegExp_parser methods    *)
(*   - parser/parser.go, parser/error.go : the _parser helpers              *)
(*   - otto.go : Otto.Call                                                  *)
(*                                                                         *)
(* Strings are sequences of bytes; a byte is written as a one-character    *)
(* string ("a", "(", "\\") and the non-ASCII bytes of the samples as       *)
(* "<C3>", "<A9>", "<FF>", ...  A rune is an ASCII byte, "U+00E9",          *)
(* "U+FFFD" (utf8.RuneError) or EOF (the code's -1).  Offsets are the       *)
(* code's 0-based byte offsets.                                            *)
(***************************************************************************)
EXTENDS Integers, Sequences, FiniteSets, TLC

VARIABLES
    pc,       \* where the modelled call stands
    pattern,  \* the argument of TransformRegExp
    re,       \* the _RegExp_parser struct (regexp.go:10-22)
    stack,    \* the Go call stack of scan / scanGroup / scanBracket
    ret,      \* what TransformRegExp returned: (string, error)
    args,     \* the arguments of ParseFile: fileSet, filename, src
    parser,   \* the _parser struct (parser.go:12-37)
    calls,    \* the number of steps parseProgram has made
    parseRet, \* what parse returned: (*ast.Program, error)
    ottoCall, \* the source and argumentList of Otto.Call, and the runtime
    ottoRuns  \* two calls of Otto.Call that differ in this at most

regexpVars == <<pattern, re, stack, ret>>

parserVars == <<args, parser, calls, parseRet>>

ottoVars == <<ottoCall, ottoRuns>>

vars ==
    <<pc, pattern, re, stack, ret, args, parser, calls, parseRet, ottoCall,
      ottoRuns>>

--------------------------------------------------------------------------
(* Go strings with 0-based offsets *)

At(s, i) == s[i + 1]

Slice(s, from, to) == SubSeq(s, from + 1, to)

RECURSIVE Concat(_)
Concat(ss) == IF ss = <<>> THEN <<>> ELSE Head(ss) \o Concat(Tail(ss))

IndexOf(s, c) == CHOOSE i \in 1..Len(s) : s[i] = c

InSeq(s, c) == \E i \in 1..Len(s) : s[i] = c

--------------------------------------------------------------------------
(* Characters *)

EOF == "EOF"

RuneError == "U+FFFD"

DecimalDigits == <<"0", "1", "2", "3", "4", "5", "6", "7", "8", "9">>

LowerLetters ==
    <<"a", "b", "c", "d", "e", "f", "g", "h", "i", "j", "k", "l", "m",
      "n", "o", "p", "q", "r", "s", "t", "u", "v", "w", "x", "y", "z">>

UpperLetters ==
    <<"A", "B", "C", "D", "E", "F", "G", "H", "I", "J", "K", "L", "M",
      "N", "O", "P", "Q", "R", "S", "T", "U", "V", "W", "X", "Y", "Z">>

\* The non-ASCII bytes of the samples: a byte >= utf8.RuneSelf (regexp.go:359).
NonASCIIBytes == {"<C3>", "<A9>", "<FF>", "<EF>", "<BF>", "<BD>"}

\* utf8.DecodeRuneInString on the sampled bytes: C3 A9 is U+00E9 (width 2);
\* a lead byte without its continuation, a lone continuation byte and FF are
\* RuneError with width 1.
DecodeRuneInString(s) ==
    IF Len(s) >= 2 /\ s[1] = "<C3>" /\ s[2] = "<A9>"
    THEN [chr |-> "U+00E9", width |-> 2]
    ELSE IF Len(s) >= 3 /\ s[1] = "<EF>" /\ s[2] = "<BF>" /\ s[3] = "<BD>"
    THEN [chr |-> RuneError, width |-> 3]
    ELSE [chr |-> RuneError, width |-> 1]

\* bytes.Buffer.WriteRune: the UTF-8 encoding of the rune.
EncodeRune(r) ==
    CASE r = "U+00E9" -> <<"<C3>", "<A9>">>
      [] r = RuneError -> <<"<EF>", "<BF>", "<BD>">>
      [] OTHER -> <<r>>

\* digitValue (parser/lexer.go, not among the source files): the value of a
\* hexadecimal digit, 16 for every other rune.
digitValue(chr) ==
    CASE InSeq(DecimalDigits, chr) -> IndexOf(DecimalDigits, chr) - 1
      [] InSeq(SubSeq(LowerLetters, 1, 6), chr) -> IndexOf(LowerLetters, chr) + 9
      [] InSeq(SubSeq(UpperLetters, 1, 6), chr) -> IndexOf(UpperLetters, chr) + 9
      [] OTHER -> 16

\* isIdentifierPart (parser/lexer.go, not among the source files).
isIdentifierPart(chr) ==
    \/ chr \in {"$", "_", "\\"}
    \/ InSeq(LowerLetters, chr)
    \/ InSeq(UpperLetters, chr)
    \/ InSeq(DecimalDigits, chr)
    \/ chr = "U+00E9"

\* strconv.AppendInt(tmp, value, 16): lower-case hexadecimal, no padding.
HexDigits == DecimalDigits \o SubSeq(LowerLetters, 1, 6)

RECURSIVE FormatHex(_)
FormatHex(n) ==
    IF n < 16 THEN <<HexDigits[n + 1]>>
    ELSE FormatHex(n \div 16) \o <<HexDigits[(n % 16) + 1]>>

--------------------------------------------------------------------------
(* Errors: fmt.Errorf(msg, msgValues...) as the format and its argument *)

Nil == [msg |-> "<nil>", arg |-> <<>>]

Errorf(msg, arg) == [msg |-> msg, arg |-> arg]

--------------------------------------------------------------------------
(* _RegExp_parser methods, as functions of the struct *)

\* regexp.go:375-379
error(p, msg, arg) == [p EXCEPT !.errors = Append(@, Errorf(msg, arg))]

\* regexp.go:354-372
read(p) ==
    IF p.offset < p.length
    THEN LET b == At(p.str, p.offset) IN
         IF b \notin NonASCIIBytes
         THEN [p EXCEPT !.chrOffset = p.offset, !.offset = p.offset + 1, !.chr = b]
         ELSE LET d == DecodeRuneInString(Slice(p.str, p.offset, p.length))
                  q == IF d.chr = RuneError /\ d.width = 1
                       THEN error(p, "RuneError", <<>>)
                       ELSE p
              IN [q EXCEPT !.chrOffset = p.offset,
                           !.offset = p.offset + d.width,
                           !.chr = d.chr]
    ELSE [p EXCEPT !.chrOffset = p.length, !.chr = EOF]

\* bytes.Buffer.Write / WriteByte / WriteString: never return an error.
Write(p, bytes) == [p EXCEPT !.buffer = @ \o bytes]

\* pass() writing the character without reading the next one.
pass_NoRead(p) == IF p.chr # EOF THEN Write(p, EncodeRune(p.chr)) ELSE p

\* regexp.go:344-352
pass(p) ==
    read(IF p.chr # EOF THEN Write(p, EncodeRune(p.chr)) ELSE p)


(* scanEscape, regexp.go:141-342; p.chr is the character after the '\' *)

\* regexp.go:150-159: the loop over octal digits; value and size as it ends.
RECURSIVE scanOctalDigits(_, _, _)
scanOctalDigits(p, value, size) ==
    LET digit == digitValue(p.chr) IN
    IF digit >= 8
    THEN [p |-> p, value |-> value, size |-> size]
    ELSE scanOctalDigits(read(p), value * 8 + digit, size + 1)

\* regexp.go:171-181 and 258-268: '\x' and the value in hexadecimal, with a
\* leading '0' when the value is below 16.
WriteHexValue(p, value) ==
    Write(p, (IF value >= 16 THEN <<"\\", "x">> ELSE <<"\\", "x", "0">>)
             \o FormatHex(value))

\* scanEscapeOneDigit with the flagged digits starting at 0.
scanEscapeOneDigit_FlagsZero(p, value) ==
    error(Write(p, <<"\\", DecimalDigits[value + 1]>>),
          "re2: Invalid \\%d <backreference>", <<DecimalDigits[value + 1]>>)

\* regexp.go:160-170: one digit read.
scanEscapeOneDigit(p, value) ==
    LET q == Write(p, <<"\\", DecimalDigits[value + 1]>>) IN
    IF value # 0
    THEN error(q, "re2: Invalid \\%d <backreference>", <<DecimalDigits[value + 1]>>)
    ELSE q

\* regexp.go:147-182
scanEscapeOctal(p) ==
    LET r == scanOctalDigits(p, 0, 0) IN
    IF r.size = 1
    THEN scanEscapeOneDigit(r.p, r.value)
    ELSE WriteHexValue(r.p, r.value)

\* regexp.go:186-194: the loop over decimal digits.
RECURSIVE scanDecimalDigits(_)
scanDecimalDigits(p) ==
    IF digitValue(p.chr) >= 10 THEN p ELSE scanDecimalDigits(read(p))

\* scanEscapeDecimal reading one digit only.
scanEscapeDecimal_OneDigit(p) ==
    LET q == read(p)
        digits == Slice(q.str, p.chrOffset, q.chrOffset)
    IN error(Write(Write(q, <<"\\">>), digits),
             "re2: Invalid \\%s <backreference>", digits)

\* regexp.go:184-204
scanEscapeDecimal(p) ==
    LET offset == p.chrOffset
        q == scanDecimalDigits(p)
        digits == Slice(q.str, offset, q.chrOffset)
    IN error(Write(Write(q, <<"\\">>), digits),
             "re2: Invalid \\%s <backreference>", digits)

\* regexp.go:292-303: the loop over at most `length` digits of `base`;
\* skip is set when it left by the goto.
RECURSIVE scanHexDigits(_, _, _)
scanHexDigits(p, length, base) ==
    IF length = 0 THEN [p |-> p, skip |-> FALSE]
    ELSE IF digitValue(p.chr) >= base THEN [p |-> p, skip |-> TRUE]
    ELSE scanHexDigits(read(p), length - 1, base)

\* WriteHexEscape with the braces left out.
WriteHexEscape_NoBraces(p, length, offset, valueOffset) ==
    Write(p, <<"\\", "x">> \o Slice(p.str, valueOffset, valueOffset + length))

\* regexp.go:305-333 and 337-341: what is written after the digits were read;
\* offset is the offset of the 'x' or 'u'.
WriteHexEscape(p, length, offset, valueOffset) ==
    IF length = 4
    THEN Write(p, <<"\\", "x", "{">> \o Slice(p.str, valueOffset, valueOffset + 4)
                  \o <<"}">>)
    ELSE IF length = 2
    THEN Write(p, <<"\\", "x">> \o Slice(p.str, valueOffset, valueOffset + 2))
    ELSE Write(error(p, "re2: Illegal branch in scanEscape", <<>>),
               Slice(p.str, offset, p.chrOffset))

\* regexp.go:206-212 and 288-342; p.chr is the 'x' or 'u'.
scanEscapeHex(p, length, base) ==
    LET offset == p.chrOffset
        q == read(p)
        valueOffset == q.chrOffset
        r == scanHexDigits(q, length, base)
    IN IF r.skip
       THEN Write(r.p, Slice(r.p.str, offset, r.p.chrOffset))
       ELSE WriteHexEscape(r.p, length, offset, valueOffset)

\* scanEscapeBackspace writing the word boundary.
scanEscapeBackspace_WordBoundary(p) == read(Write(p, <<"\\", "b">>))

\* regexp.go:214-223: '\b' in a character class.
scanEscapeBackspace(p) == read(Write(p, <<"\\", "x", "0", "8">>))

\* scanEscapePassThrough without the '\' written first.
scanEscapePassThrough_NoBackslash(p) == pass(p)

\* regexp.go:225-242
scanEscapePassThrough(p) == pass(Write(p, <<"\\">>))

\* regexp.go:244-270
scanEscapeControl(p) ==
    LET q == read(p) IN
    IF InSeq(LowerLetters, q.chr)
    THEN read(WriteHexValue(q, IndexOf(LowerLetters, q.chr)))
    ELSE IF InSeq(UpperLetters, q.chr)
    THEN read(WriteHexValue(q, IndexOf(UpperLetters, q.chr)))
    ELSE Write(q, <<"c">>)

\* The default branch keeping the backslash before every character.
scanEscapeDefault_KeepsAll(p) == pass(Write(p, <<"\\">>))

\* regexp.go:272-286
scanEscapeDefault(p) ==
    pass(IF p.chr = "$" \/ ~isIdentifierPart(p.chr) THEN Write(p, <<"\\">>) ELSE p)

\* regexp.go:141-342
scanEscape(p, inClass) ==
    CASE p.chr \in {"0", "1", "2", "3", "4", "5", "6", "7"} -> scanEscapeOctal(p)
      [] p.chr \in {"8", "9"} -> scanEscapeDecimal(p)
      [] p.chr = "x" -> scanEscapeHex(p, 2, 16)
      [] p.chr = "u" -> scanEscapeHex(p, 4, 16)
      [] p.chr = "b" /\ inClass -> scanEscapeBackspace(p)
      [] p.chr \in {"b", "B", "d", "D", "s", "S", "w", "W", "\\",
                    "f", "n", "r", "t", "v"} -> scanEscapePassThrough(p)
      [] p.chr = "c" -> scanEscapeControl(p)
      [] OTHER -> scanEscapeDefault(p)

--------------------------------------------------------------------------
(* TransformRegExp and the scan loops, one action per loop iteration *)

\* The struct literal of regexp.go:45-49; chr is the zero rune.
NewRegExpParser(str) ==
    [str |-> str, length |-> Len(str), chr |-> "U+0000", chrOffset |-> 0,
     offset |-> 0, errors |-> <<>>, invalid |-> FALSE, buffer |-> <<>>]

NoReturn == [str |-> <<>>, err |-> Nil, returned |-> FALSE]

Return(str, err) == [str |-> str, err |-> err, returned |-> TRUE]

Top == stack[Len(stack)]

Pop == SubSeq(stack, 1, Len(stack) - 1)

\* scanGroupLookahead with the invalid flag set as well.
scanGroupLookahead_SetsInvalid(p) ==
    LET str == Slice(p.str, p.chrOffset, p.length) IN
    IF Len(str) > 1 /\ At(str, 0) = "?" /\ (At(str, 1) = "=" \/ At(str, 1) = "!")
    THEN [error(p, "re2: Invalid (%s) <lookahead>",
                Slice(p.str, p.chrOffset, p.chrOffset + 2))
            EXCEPT !.invalid = TRUE]
    ELSE p

\* scanGroupLookahead without the test for '!'.
scanGroupLookahead_OnlyEquals(p) ==
    LET str == Slice(p.str, p.chrOffset, p.length) IN
    IF Len(str) > 1 /\ At(str, 0) = "?" /\ At(str, 1) = "="
    THEN error(p, "re2: Invalid (%s) <lookahead>",
               Slice(p.str, p.chrOffset, p.chrOffset + 2))
    ELSE p

\* regexp.go:88-95: the peek for (?= and (?! when scanGroup is entered.
scanGroupLookahead(p) ==
    LET str == Slice(p.str, p.chrOffset, p.length) IN
    IF Len(str) > 1 /\ At(str, 0) = "?" /\ (At(str, 1) = "=" \/ At(str, 1) = "!")
    THEN error(p, "re2: Invalid (%s) <lookahead>",
               Slice(p.str, p.chrOffset, p.chrOffset + 2))
    ELSE p

\* regexp.go:37-51: the empty pattern returns at once; otherwise the parser
\* is built, the first character read and scan() called.
TransformRegExp ==
    /\ pc = "TransformRegExp"
    /\ IF pattern = <<>>
       THEN /\ ret' = Return(<<>>, Nil)
            /\ pc' = "returned"
            /\ UNCHANGED <<re, stack>>
       ELSE /\ re' = read(NewRegExpParser(pattern))
            /\ stack' = <<"scan">>
            /\ pc' = "scan"
            /\ UNCHANGED ret
    /\ UNCHANGED pattern
    /\ UNCHANGED <<parserVars, ottoVars>>

\* regexp.go:65-83: one iteration of the loop of scan().
scan ==
    /\ pc = "scan" /\ Top = "scan" /\ re.chr # EOF
    /\ CASE re.chr = "\\" ->
              /\ re' = scanEscape(read(re), FALSE)
              /\ UNCHANGED stack
         [] re.chr = "(" ->
              /\ re' = scanGroupLookahead(pass(re))
              /\ stack' = Append(stack, "scanGroup")
         [] re.chr = "[" ->
              /\ re' = pass(re)
              /\ stack' = Append(stack, "scanBracket")
         [] re.chr = ")" ->
              /\ re' = pass([error(re, "Unmatched ')'", <<>>) EXCEPT !.invalid = TRUE])
              /\ UNCHANGED stack
         [] OTHER ->
              /\ re' = pass(re)
              /\ UNCHANGED stack
    /\ UNCHANGED <<pattern, pc, ret>>
    /\ UNCHANGED <<parserVars, ottoVars>>

\* TransformRegExpResult without the test of the invalid flag.
TransformRegExpResult_IgnoresInvalid(p) ==
    Return(p.buffer, IF Len(p.errors) > 0 THEN p.errors[1] ELSE Nil)

\* TransformRegExp returning the empty string whenever an error was recorded.
TransformRegExpResult_EmptyOnError(p) ==
    LET err == IF Len(p.errors) > 0 THEN p.errors[1] ELSE Nil IN
    IF p.invalid \/ err # Nil THEN Return(<<>>, err) ELSE Return(p.buffer, err)

\* regexp.go:52-61: what TransformRegExp returns once scan() has returned.
TransformRegExpResult(p) ==
    LET err == IF Len(p.errors) > 0 THEN p.errors[1] ELSE Nil IN
    IF p.invalid THEN Return(<<>>, err) ELSE Return(p.buffer, err)

\* regexp.go:51-61: scan() leaves its loop at the end of input and returns.
TransformRegExpReturn ==
    /\ pc = "scan" /\ Top = "scan" /\ re.chr = EOF
    /\ ret' = TransformRegExpResult(re)
    /\ pc' = "returned"
    /\ stack' = <<>>
    /\ UNCHANGED <<pattern, re>>
    /\ UNCHANGED <<parserVars, ottoVars>>

\* regexp.go:96-111: one iteration of the loop of scanGroup().
scanGroup ==
    /\ pc = "scan" /\ Top = "scanGroup" /\ re.chr # EOF /\ re.chr # ")"
    /\ CASE re.chr = "\\" ->
              /\ re' = scanEscape(read(re), FALSE)
              /\ UNCHANGED stack
         [] re.chr = "(" ->
              /\ re' = scanGroupLookahead(pass(re))
              /\ stack' = Append(stack, "scanGroup")
         [] re.chr = "[" ->
              /\ re' = pass(re)
              /\ stack' = Append(stack, "scanBracket")
         [] OTHER ->
              /\ re' = pass(re)
              /\ UNCHANGED stack
    /\ UNCHANGED <<pattern, pc, ret>>
    /\ UNCHANGED <<parserVars, ottoVars>>

\* regexp.go:112-117: the end of scanGroup().
scanGroupReturn ==
    /\ pc = "scan" /\ Top = "scanGroup" /\ (re.chr = EOF \/ re.chr = ")")
    /\ re' = IF re.chr # ")"
             THEN [error(re, "Unterminated group", <<>>) EXCEPT !.invalid = TRUE]
             ELSE pass(re)
    /\ stack' = Pop
    /\ UNCHANGED <<pattern, pc, ret>>
    /\ UNCHANGED <<parserVars, ottoVars>>

\* regexp.go:122-131: one iteration of the loop of scanBracket().
scanBracket ==
    /\ pc = "scan" /\ Top = "scanBracket" /\ re.chr # EOF /\ re.chr # "]"
    /\ re' = IF re.chr = "\\" THEN scanEscape(read(re), TRUE) ELSE pass(re)
    /\ UNCHANGED <<pattern, pc, stack, ret>>
    /\ UNCHANGED <<parserVars, ottoVars>>

\* regexp.go:132-137: the end of scanBracket().
scanBracketReturn ==
    /\ pc = "scan" /\ Top = "scanBracket" /\ (re.chr = EOF \/ re.chr = "]")
    /\ re' = IF re.chr # "]"
             THEN [error(re, "Unterminated character class", <<>>)
                     EXCEPT !.invalid = TRUE]
             ELSE pass(re)
    /\ stack' = Pop
    /\ UNCHANGED <<pattern, pc, ret>>
    /\ UNCHANGED <<parserVars, ottoVars>>

NextRegExp ==
    \/ TransformRegExp
    \/ scan
    \/ TransformRegExpReturn
    \/ scanGroup
    \/ scanGroupReturn
    \/ scanBracket
    \/ scanBracketReturn

--------------------------------------------------------------------------
(* _parser: parser.go and error.go.  The scanner (_parser.scan) and the     *)
(* statement parser (parseProgram) are not among the source files: scan is  *)
(* any tokenizer that moves forward through str, and parseProgram any       *)
(* sequence of calls of the helpers below that ends at the EOF token.       *)

MaxCalls == 2

NoPosition == [Filename |-> "", Line |-> 0, Column |-> 0]

NilError == [msg |-> "<nil>", arg |-> <<>>, Position |-> NoPosition]

\* file.FileSet.AddFile: the base of the new file, one past the last file's
\* last index.
AddFile(fileSet) == fileSet.last + 1

\* parser.go:39-46: filename is not among the fields the literal sets.
newParser(filename, src, base) ==
    [filename |-> "", str |-> src, length |-> Len(src), base |-> base,
     chrOffset |-> 0, idx |-> 0, token |-> "", literal |-> <<>>,
     implicitSemicolon |-> FALSE, errors |-> <<>>]

\* parser.go:120-122
idxOf(p, offset) == p.base + offset

\* parser.go:133-155, over the bytes of str: U+2028 and U+2029 are three
\* bytes each, and last is the index of the rune's first byte plus 2.
RECURSIVE lineCountFrom(_, _, _, _, _)
lineCountFrom(str, index, line, last, pair) ==
    IF index >= Len(str) THEN [line |-> line, last |-> last]
    ELSE IF At(str, index) = "\r"
    THEN lineCountFrom(str, index + 1, line + 1, index, TRUE)
    ELSE IF At(str, index) = "\n"
    THEN lineCountFrom(str, index + 1, IF pair THEN line ELSE line + 1, index, FALSE)
    ELSE IF /\ index + 2 < Len(str)
            /\ At(str, index) = "<E2>" /\ At(str, index + 1) = "<80>"
            /\ At(str, index + 2) \in {"<A8>", "<A9>"}
    THEN lineCountFrom(str, index + 3, line + 1, index + 2, FALSE)
    ELSE lineCountFrom(str, index + 1, line, last, FALSE)

lineCount(str) == lineCountFrom(str, 0, 0, -1, FALSE)

\* parser.go:157-171
position(p, idx) ==
    LET offset == idx - p.base
        str == Slice(p.str, 0, offset)
        lc == lineCount(str)
    IN [Filename |-> p.filename,
        Line |-> 1 + lc.line,
        Column |-> IF lc.last >= 0 THEN offset - lc.last ELSE 1 + Len(str)]

\* error() placing an error of Idx zero at the start of the file.
parser_error_ZeroIsStart(p, place, msg, arg) ==
    LET idx == IF place = 0 THEN idxOf(p, 0) ELSE place IN
    [p EXCEPT !.errors =
        Append(@, [msg |-> msg, arg |-> arg, Position |-> position(p, idx)])]

\* error.go:71-94 for a place of type file.Idx.
parser_error(p, place, msg, arg) ==
    LET idx == IF place = 0 THEN idxOf(p, p.chrOffset) ELSE place IN
    [p EXCEPT !.errors =
        Append(@, [msg |-> msg, arg |-> arg, Position |-> position(p, idx)])]

\* error.go:58-69: the four values Sprintf joins as "%s: Line %d:%d %s".
Error_Error(e) ==
    [filename |-> IF e.Position.Filename = "" THEN "(anonymous)"
                  ELSE e.Position.Filename,
     Line |-> e.Position.Line,
     Column |-> e.Position.Column,
     Message |-> [msg |-> e.msg, arg |-> e.arg]]

\* error.go:96-101
errorUnexpected(p, idx, chr) ==
    IF chr = EOF
    THEN parser_error(p, idx, "Unexpected end of input", <<>>)
    ELSE parser_error(p, idx, "Unexpected token %v", <<"ILLEGAL">>)

\* error.go:103-120; a token is written as token.Token.String() gives it.
errorUnexpectedToken(p, tkn) ==
    CASE tkn = "EOF" -> parser_error(p, 0, "Unexpected end of input", <<>>)
      [] tkn = "IDENTIFIER" -> parser_error(p, p.idx, "Unexpected identifier", <<>>)
      [] tkn = "NUMBER" -> parser_error(p, p.idx, "Unexpected number", <<>>)
      [] tkn = "STRING" -> parser_error(p, p.idx, "Unexpected string", <<>>)
      [] tkn \in {"BOOLEAN", "NULL"} ->
           parser_error(p, p.idx, "Unexpected token %v", p.literal)
      [] OTHER -> parser_error(p, p.idx, "Unexpected token %v", <<tkn>>)

TokenSample == {";", "}", ")", "IDENTIFIER", "BOOLEAN", "+", "ILLEGAL"}

\* What one call of scan() can give from the scanner's offset: the token
\* starts at or after it and ends within str; EOF is given at the end only.
\* A line terminator before the token may latch implicitSemicolon.
ScanResults(p) ==
    {[token |-> "EOF", start |-> p.length, end |-> p.length, implicit |-> i] :
         i \in BOOLEAN}
    \cup {[token |-> t, start |-> start, end |-> start + 1, implicit |-> i] :
              t \in TokenSample, start \in p.chrOffset..(p.length - 1),
              i \in BOOLEAN}

\* _parser.scan() giving the result r: the scanner moves past the token,
\* latches or clears implicitSemicolon, and reports an ILLEGAL token through
\* errorUnexpected.
parser_scan(p, r) ==
    LET q == [p EXCEPT !.chrOffset = r.end, !.implicitSemicolon = r.implicit]
        idx == idxOf(p, r.start)
    IN [parser |-> IF r.token = "ILLEGAL"
                   THEN errorUnexpected(q, idx, At(p.str, r.start))
                   ELSE q,
        tkn |-> r.token,
        literal |-> Slice(p.str, r.start, r.end),
        idx |-> idx]

\* parser.go:89-91 with the result r of scan().
next(p, r) ==
    LET s == parser_scan(p, r) IN
    [s.parser EXCEPT !.token = s.tkn, !.literal = s.literal, !.idx = s.idx]

\* parser.go:124-131
expect(p, value, r) ==
    next(IF p.token # value THEN errorUnexpectedToken(p, p.token) ELSE p, r)

\* optionalSemicolon() without the test of implicitSemicolon.
optionalSemicolon_NoImplicit(p, r) ==
    IF p.token = ";" THEN next(p, r)
    ELSE IF p.token # "EOF" /\ p.token # "}" THEN expect(p, ";", r)
    ELSE p

\* parser.go:93-107
optionalSemicolon(p, r) ==
    IF p.token = ";" THEN next(p, r)
    ELSE IF p.implicitSemicolon THEN [p EXCEPT !.implicitSemicolon = FALSE]
    ELSE IF p.token # "EOF" /\ p.token # "}" THEN expect(p, ";", r)
    ELSE p

\* semicolon() letting the end of input pass as optionalSemicolon() does.
semicolon_ToleratesEOF(p, r) ==
    IF p.token # ")" /\ p.token # "}" /\ p.token # "EOF"
    THEN IF p.implicitSemicolon THEN [p EXCEPT !.implicitSemicolon = FALSE]
         ELSE expect(p, ";", r)
    ELSE p

\* parser.go:109-118
semicolon(p, r) ==
    IF p.token # ")" /\ p.token # "}"
    THEN IF p.implicitSemicolon THEN [p EXCEPT !.implicitSemicolon = FALSE]
         ELSE expect(p, ";", r)
    ELSE p

\* parse() returning the latest error instead of the earliest.
parseResult_LastError(p) ==
    [program |-> TRUE,
     err |-> IF Len(p.errors) > 0 THEN p.errors[Len(p.errors)] ELSE NilError]

\* parser.go:83-86: what parse() returns.
parseResult(p) ==
    [program |-> TRUE, err |-> IF Len(p.errors) > 0 THEN p.errors[1] ELSE NilError]

NoParseReturn == [program |-> FALSE, err |-> NilError]

\* parser.go:61-68 and 80-81: the parser is built and parse() reads the
\* first token.
ParseFile ==
    /\ pc = "ParseFile"
    /\ LET base == IF args.fileSet.nil THEN 1 ELSE AddFile(args.fileSet) IN
       \E r \in ScanResults(newParser(args.filename, args.src, base)) :
           parser' = next(newParser(args.filename, args.src, base), r)
    /\ pc' = "parseProgram"
    /\ UNCHANGED <<args, calls, parseRet>>
    /\ UNCHANGED <<regexpVars, ottoVars>>

\* A step of parseProgram: one call of a helper of parser.go.
parseProgramCall(p) ==
    /\ pc = "parseProgram"
    /\ calls < MaxCalls
    /\ parser' = p
    /\ calls' = calls + 1
    /\ UNCHANGED <<pc, args, parseRet>>
    /\ UNCHANGED <<regexpVars, ottoVars>>

CallNext == \E r \in ScanResults(parser) : parseProgramCall(next(parser, r))

CallExpect ==
    \E r \in ScanResults(parser), value \in {";", ")", "IDENTIFIER"} :
        parseProgramCall(expect(parser, value, r))

CallOptionalSemicolon ==
    \E r \in ScanResults(parser) : parseProgramCall(optionalSemicolon(parser, r))

CallSemicolon ==
    \E r \in ScanResults(parser) : parseProgramCall(semicolon(parser, r))

\* parser.go:82-87: parseProgram() has returned, at the EOF token.
parseReturn ==
    /\ pc = "parseProgram"
    /\ parser.token = "EOF"
    /\ parseRet' = parseResult(parser)
    /\ pc' = "parsed"
    /\ UNCHANGED <<args, parser, calls>>
    /\ UNCHANGED <<regexpVars, ottoVars>>

NextParser ==
    \/ ParseFile
    \/ CallNext
    \/ CallExpect
    \/ CallOptionalSemicolon
    \/ CallSemicolon
    \/ parseReturn

NoArgs == [fileSet |-> [nil |-> TRUE, last |-> 0], filename |-> "", src |-> <<>>]

--------------------------------------------------------------------------
(* Otto.Call: otto.go:291-344.  The runtime (parse, evaluateCall, run,      *)
(* ToValue, Value.Call, constructSafe) is not among the source files: what  *)
(* it does with a source text is given by ottoCall, the same for both      *)
(* calls of ottoRuns, which start from the same runtime state.              *)

\* strings.HasPrefix
HasPrefix(s, prefix) ==
    Len(s) >= Len(prefix) /\ SubSeq(s, 1, Len(prefix)) = prefix

UndefinedValue == [kind |-> "undefined"]

NoOttoCall ==
    [source |-> <<>>, parse |-> "error", run |-> "error", fn |-> "returns"]

\* runtime.ToValue: nil is null; a Go value with no JavaScript counterpart
\* is an error.
ToValue(this) ==
    CASE this = "nil" -> [value |-> [kind |-> "null"], err |-> "nil"]
      [] this = "unconvertible" ->
           [value |-> UndefinedValue, err |-> "TypeError: unable to convert"]
      [] OTHER -> [value |-> [kind |-> this], err |-> "nil"]

\* What invoking the function gives: as a function call the result may
\* depend on this, as a constructor call it does not.
Invoke(w, new_, thisValue) ==
    CASE w.fn = "notfunction" ->
           [value |-> UndefinedValue, err |-> "TypeError: not a function",
            invoked |-> 0]
      [] w.fn = "throws" ->
           [value |-> UndefinedValue, err |-> "thrown", invoked |-> 1]
      [] OTHER ->
           [value |-> IF new_ THEN [kind |-> "constructed"]
                      ELSE [kind |-> "result", this |-> thisValue],
            err |-> "nil", invoked |-> 1]

NewRun(this) ==
    [pc |-> "Call", this |-> this, source |-> <<>>, new_ |-> FALSE,
     thisValue |-> UndefinedValue, started |-> FALSE, invocations |-> 0,
     evaluations |-> 0, value |-> UndefinedValue, err |-> "nil"]

SetRun(i, r) ==
    /\ ottoRuns' = [ottoRuns EXCEPT ![i] = r]
    /\ UNCHANGED <<pc, ottoCall>>
    /\ UNCHANGED <<regexpVars, parserVars>>

ReturnFromCall(r, value, err) ==
    [r EXCEPT !.pc = "returned", !.value = value, !.err = err]

\* otto.go:291-302 and 317: the prefix "new " is cut off and the branch on
\* new_ and this is taken.
OttoCall(i) ==
    /\ pc = "Call" /\ ottoRuns[i].pc = "Call"
    /\ LET new_ == HasPrefix(ottoCall.source, <<"n", "e", "w", " ">>)
           source == IF new_ THEN Slice(ottoCall.source, 4, Len(ottoCall.source))
                     ELSE ottoCall.source
           r == [ottoRuns[i] EXCEPT !.new_ = new_, !.source = source]
       IN SetRun(i, [r EXCEPT !.pc = IF ~new_ /\ r.this = "nil"
                                      THEN "evaluateCall" ELSE "ToValue"])

\* otto.go:303-316: source + "()" is parsed and, if it is a call expression,
\* evaluated under catchPanic.
OttoCallEvaluateCall(i) ==
    /\ pc = "Call" /\ ottoRuns[i].pc = "evaluateCall"
    /\ LET r == ottoRuns[i] IN
       CASE ottoCall.parse = "error" -> SetRun(i, [r EXCEPT !.pc = "Run"])
         [] ottoCall.parse = "other" -> SetRun(i, [r EXCEPT !.pc = "Run"])
         [] ottoCall.run = "error" ->
              SetRun(i, [r EXCEPT !.pc = "Run", !.started = TRUE,
                                  !.evaluations = @ + 1])
         [] OTHER ->
              LET o == Invoke(ottoCall, FALSE, [kind |-> "callee"])
                  q == [r EXCEPT !.started = TRUE, !.evaluations = @ + 1,
                                 !.invocations = @ + o.invoked]
              IN IF o.err = "nil"
                 THEN SetRun(i, ReturnFromCall(q, o.value, "nil"))
                 ELSE SetRun(i, [q EXCEPT !.pc = "Run"])

\* otto.go:317-323
OttoCallToValue(i) ==
    /\ pc = "Call" /\ ottoRuns[i].pc = "ToValue"
    /\ LET r == ottoRuns[i]
           v == ToValue(r.this)
       IN IF v.err # "nil"
          THEN SetRun(i, ReturnFromCall(r, UndefinedValue, v.err))
          ELSE SetRun(i, [r EXCEPT !.thisValue = v.value, !.pc = "Run"])

\* otto.go:325-328
OttoCallRun(i) ==
    /\ pc = "Call" /\ ottoRuns[i].pc = "Run"
    /\ LET r == ottoRuns[i] IN
       IF ottoCall.run = "error"
       THEN SetRun(i, ReturnFromCall(r, UndefinedValue, "run error"))
       ELSE SetRun(i, [r EXCEPT !.evaluations = @ + 1, !.pc = "invoke"])

\* otto.go:330-343
OttoCallInvoke(i) ==
    /\ pc = "Call" /\ ottoRuns[i].pc = "invoke"
    /\ LET r == ottoRuns[i]
           o == Invoke(ottoCall, r.new_, r.thisValue)
           q == [r EXCEPT !.invocations = @ + o.invoked]
       IN IF o.err # "nil"
          THEN SetRun(i, ReturnFromCall(q, UndefinedValue, o.err))
          ELSE SetRun(i, ReturnFromCall(q, o.value, "nil"))

NextCall ==
    \E i \in {1, 2} :
        \/ OttoCall(i)
        \/ OttoCallEvaluateCall(i)
        \/ OttoCallToValue(i)
        \/ OttoCallRun(i)
        \/ OttoCallInvoke(i)

SourceTexts ==
    {<<"f">>, <<"n", "e", "w", " ", "f">>, <<"n", "e", "w", "f">>,
     <<"n", "e", "w", " ">>, <<"n", "e", "w">>}

ThisSample == {"nil", "object", "string", "unconvertible"}

InitCall ==
    /\ pc = "Call"
    /\ ottoCall \in [source : SourceTexts,
                     parse : {"CallExpression", "other", "error"},
                     run : {"value", "error"},
                     fn : {"returns", "throws", "notfunction"}]
    /\ \E this1 \in ThisSample, this2 \in ThisSample :
           ottoRuns = <<NewRun(this1), NewRun(this2)>>
    /\ pattern = <<>>
    /\ re = NewRegExpParser(<<>>)
    /\ stack = <<>>
    /\ ret = NoReturn
    /\ args = NoArgs
    /\ parser = newParser("", <<>>, 1)
    /\ calls = 0
    /\ parseRet = NoParseReturn

SpecCall == InitCall /\ [][NextCall]_vars

--------------------------------------------------------------------------
(* The patterns TransformRegExp is called with *)

\* Every concatenation of at most n pieces of P.
Patterns(P, n) ==
    {Concat(ps) : ps \in UNION {[1..k -> P] : k \in 0..n}}

MaxPieces == 4

StructurePieces ==
    {<<"(">>, <<")">>, <<"[">>, <<"]">>, <<"\\">>, <<"?">>, <<"(", "?", "=">>,
     <<"(", "?", "!">>, <<"1">>}

InitRegExp(S) ==
    /\ pattern \in S
    /\ pc = "TransformRegExp"
    /\ re = NewRegExpParser(<<>>)
    /\ stack = <<>>
    /\ ret = NoReturn
    /\ args = NoArgs
    /\ parser = newParser("", <<>>, 1)
    /\ calls = 0
    /\ parseRet = NoParseReturn
    /\ ottoCall = NoOttoCall
    /\ ottoRuns = <<>>

InitStructure == InitRegExp(Patterns(StructurePieces, MaxPieces))

SpecStructure == InitStructure /\ [][NextRegExp]_vars

\* An escape in a context: open, '\', body, close.
InContext(contexts, bodies) ==
    {c.open \o <<"\\">> \o body \o c.close : c \in contexts, body \in bodies}

Context(open, close) == [open |-> open, close |-> close]

\* Every sequence over S of a length in lo..hi.
Seqs(S, lo, hi) == UNION {[1..k -> S] : k \in lo..hi}

\* The characters tried after a '\': every row of the switch of scanEscape,
\* the pattern's own special characters, and non-ASCII text.
EscapeSample ==
    {"0", "1", "8", "x", "u", "b", "B", "d", "D", "s", "S", "w", "W", "\\",
     "f", "n", "r", "t", "v", "c", "$", "_", "a", "Z", "(", ")", "[", "]",
     "/", ".", "<C3>", "<FF>"}

CharBodies ==
    {<<e>> \o f : e \in EscapeSample, f \in {<<>>, <<"a">>, <<"<A9>">>}}

SafePieces ==
    {<<"a">>, <<"<C3>", "<A9>">>, <<"<FF>">>, <<"[">>, <<"]">>,
     <<"(", "?", ":">>, <<")">>, <<"\\", "b">>, <<"\\">>}

SafeContexts ==
    {Context(<<>>, <<>>),
     Context(<<"(", "?", ":">>, <<")">>),
     Context(<<"[">>, <<"]">>),
     Context(<<"(", "?", ":", "[">>, <<"]", "|", "a", "*", ")", "+">>)}

SafeScenarios ==
    {<<"(", "?", ":", "[", "\\", "d", "(", "]", "|", "\\", "b", ")", "a", "*">>,
     <<"[", "a", "]", "?", "(", "?", ":", "(", "?", ":", "\\", "\\", ")", ")">>}

InitSafe ==
    InitRegExp(Patterns(SafePieces, MaxPieces)
                 \cup InContext(SafeContexts, CharBodies)
                 \cup SafeScenarios)

SpecSafe == InitSafe /\ [][NextRegExp]_vars

MaxHexDigits == 5

MaxDigits == 4

HexSample == {"0", "b", "F", "g"}

DigitSample == {"0", "1", "7", "8", "9", "a"}

HexBodies ==
    {<<k>> \o d : k \in {"x", "u"}, d \in Seqs(HexSample, 0, MaxHexDigits)}

DigitBodies == Seqs(DigitSample, 1, MaxDigits)

\* Top level, a group, a class, a class in a group, a class in nested groups.
EscapeContexts ==
    {Context(<<>>, <<>>),
     Context(<<"(">>, <<")">>),
     Context(<<"[">>, <<"]">>),
     Context(<<"(", "?", ":", "[">>, <<"]", ")">>),
     Context(<<"(", "a", "(", "[">>, <<"]", ")", ")">>)}

\* The scenarios S5, S6 and S7 of the specification.
EscapeScenarios ==
    {<<"\\", "u", "0", "0", "4", "1">>, <<"[", "\\", "b", "]">>, <<"\\", "1">>}

InitEscape ==
    InitRegExp(InContext(EscapeContexts, HexBodies \cup DigitBodies \cup CharBodies)
                 \cup EscapeScenarios)

SpecEscape == InitEscape /\ [][NextRegExp]_vars

MaxLoopPieces == 3

\* Bodies for every path of scanEscape: each row of the switch, \c before a
\* letter, a non-letter, an invalid byte and the end, octal and decimal digit
\* runs, and \x and \u with enough and with too few hex digits.
LoopBodies ==
    {<<e>> : e \in EscapeSample}
        \cup {<<"c", f>> : f \in {"a", "Z", "1", "<A9>", "<FF>"}}
        \cup {<<"0", "8">>, <<"1", "1">>, <<"7", "1", "1">>, <<"8", "1", "a">>}
        \cup {<<"x", "g">>, <<"x", "0", "g">>, <<"x", "0", "0">>,
              <<"u", "0", "0", "0", "0">>, <<"u", "0", "0", "g">>,
              <<"u", "<FF>">>}

\* Structure and escapes together.  TransformRegExp is one sequential call:
\* a step that can be taken is taken.
InitTermination ==
    InitRegExp(Patterns(StructurePieces, MaxLoopPieces)
                 \cup InContext(EscapeContexts, LoopBodies)
                 \cup EscapeScenarios)

SpecTermination ==
    InitTermination /\ [][NextRegExp]_vars /\ WF_vars(NextRegExp)

--------------------------------------------------------------------------
(* Both entry points: one call of TransformRegExp or one call of ParseFile *)

ErrorPieces ==
    {<<"(", "?", "=">>, <<"(">>, <<")">>, <<"[">>, <<"]">>, <<"\\", "1">>,
     <<"<FF>">>}

SourceSample ==
    {<<>>, <<"a">>, <<"a", "\n", "b">>, <<"\r", "\n", "a">>,
     <<"<E2>", "<80>", "<A8>", "a">>}

FileSetSample == {[nil |-> TRUE, last |-> 0], [nil |-> FALSE, last |-> 4]}

InitParser ==
    /\ pc = "ParseFile"
    /\ args \in [fileSet : FileSetSample, filename : {"", "a.js"}, src : SourceSample]
    /\ parser = newParser("", <<>>, 1)
    /\ calls = 0
    /\ parseRet = NoParseReturn
    /\ ottoCall = NoOttoCall
    /\ ottoRuns = <<>>
    /\ pattern = <<>>
    /\ re = NewRegExpParser(<<>>)
    /\ stack = <<>>
    /\ ret = NoReturn

Init == InitParser \/ InitRegExp(Patterns(ErrorPieces, MaxPieces))

Next == NextRegExp \/ NextParser

Spec == Init /\ [][Next]_vars

--------------------------------------------------------------------------
(* The structure of an ECMAScript pattern, read off the pattern text alone: *)
(* a '\' escapes the character after it; outside a character class '['     *)
(* opens a class, '(' opens a group and ')' closes the innermost open       *)
(* group; inside a class only ']' (closing it) and '\' are special.         *)

RefStart ==
    [depth |-> 0, inClass |-> FALSE, unmatched |-> FALSE,
     lookahead |-> FALSE, backreference |-> FALSE]

IsOctalDigit(s, i) == i <= Len(s) /\ s[i] \in {"0", "1", "2", "3", "4", "5", "6", "7"}

\* s[i] is a '\' that starts an escape: is it a backreference escape, that is
\* one digit 1..7 not followed by an octal digit, or digits starting with 8 or 9?
IsBackreference(s, i) ==
    /\ i + 1 <= Len(s)
    /\ \/ s[i + 1] \in {"8", "9"}
       \/ IsOctalDigit(s, i + 1) /\ s[i + 1] # "0" /\ ~IsOctalDigit(s, i + 2)

\* s[i] is a '(' that opens a group: is the group a lookahead?
IsLookahead(s, i) ==
    i + 2 <= Len(s) /\ s[i + 1] = "?" /\ s[i + 2] \in {"=", "!"}

RECURSIVE RefScan(_, _, _)
RefScan(s, i, st) ==
    IF i > Len(s) THEN st
    ELSE IF s[i] = "\\"
    THEN RefScan(s, i + 2,
                 [st EXCEPT !.backreference = @ \/ IsBackreference(s, i)])
    ELSE IF st.inClass
    THEN RefScan(s, i + 1, [st EXCEPT !.inClass = (s[i] # "]")])
    ELSE CASE s[i] = "[" -> RefScan(s, i + 1, [st EXCEPT !.inClass = TRUE])
           [] s[i] = "(" ->
                RefScan(s, i + 1,
                        [st EXCEPT !.depth = @ + 1,
                                   !.lookahead = @ \/ IsLookahead(s, i)])
           [] s[i] = ")" ->
                RefScan(s, i + 1,
                        IF st.depth = 0 THEN [st EXCEPT !.unmatched = TRUE]
                        ELSE [st EXCEPT !.depth = @ - 1])
           [] OTHER -> RefScan(s, i + 1, st)

Ref(s) == RefScan(s, 1, RefStart)

UnterminatedGroup(s) == Ref(s).depth > 0

UnterminatedClass(s) == Ref(s).inClass

UnmatchedParen(s) == Ref(s).unmatched

ValidPattern(s) ==
    ~UnterminatedGroup(s) /\ ~UnterminatedClass(s) /\ ~UnmatchedParen(s)

\* s has t as a substring.
Contains(s, t) ==
    \E i \in 0..(Len(s) - Len(t)) : SubSeq(s, i + 1, i + Len(t)) = t

Returned == pc = "returned"

--------------------------------------------------------------------------
\* C1: a pattern with an unterminated group, an unterminated character class
\* or a ')' that closes no group yields the empty string and a non-nil error,
\* whatever else it contains.
C1_InvalidReturnsEmpty ==
    (Returned /\ ~ValidPattern(pattern)) =>
        (ret.str = <<>> /\ ret.err # Nil)

\* A ')' closing no group after a lookahead group and a literal: the buffer
\* holds the rewrite, and the empty string is returned.
C1_Witness ==
    /\ Returned
    /\ UnmatchedParen(pattern)
    /\ Ref(pattern).lookahead
    /\ re.buffer = pattern
    /\ ret.str = <<>>

\* C2: a valid pattern with a lookahead group or a backreference escape yields
\* a non-empty rewrite and a non-nil error; the invalid flag stays unset.
C2_IncompatibleReturnsRewrite ==
    (Returned /\ ValidPattern(pattern)
       /\ (Ref(pattern).lookahead \/ Ref(pattern).backreference)) =>
        (ret.str # <<>> /\ ret.err # Nil /\ ~re.invalid)

C2_Witness ==
    /\ Returned
    /\ ValidPattern(pattern)
    /\ Ref(pattern).backreference /\ ~Ref(pattern).lookahead
    /\ Len(re.errors) = 1
    /\ ret.str = pattern

\* C3 as stated: any pattern with the characters (?= or (?! anywhere yields a
\* non-empty rewrite and a non-nil error.
C3_AnyLookaheadText ==
    (Returned /\ (Contains(pattern, <<"(", "?", "=">>)
                    \/ Contains(pattern, <<"(", "?", "!">>))) =>
        (ret.str # <<>> /\ ret.err # Nil)

\* C3, amended: a pattern in which a '(' that opens a group (not escaped, not
\* in a character class) is followed by ?= or ?! yields a non-nil error, and
\* its rewrite is non-empty exactly when the pattern is valid.
C3_LookaheadGroup ==
    (Returned /\ Ref(pattern).lookahead) =>
        (ret.err # Nil /\ (ret.str # <<>> <=> ValidPattern(pattern)))

C3_Witness ==
    /\ Returned
    /\ pattern = <<"(", "?", "!", "1", ")">>
    /\ ret.str = pattern
    /\ ret.err = Errorf("re2: Invalid (%s) <lookahead>", <<"?", "!">>)

--------------------------------------------------------------------------
(* The safe subset, read off the pattern text alone: literal characters    *)
(* (valid UTF-8, none of \ ( ) [ ]), terminated classes, terminated        *)
(* non-capturing groups, and the pass-through escapes, \b only outside a    *)
(* class.                                                                  *)

PassThroughEscapes ==
    {"B", "d", "D", "s", "S", "w", "W", "f", "n", "r", "t", "v", "\\"}

RECURSIVE SafeScan(_, _, _, _)
SafeScan(s, i, depth, inClass) ==
    IF i > Len(s) THEN depth = 0 /\ ~inClass
    ELSE IF s[i] = "\\"
    THEN /\ i + 1 <= Len(s)
         /\ \/ s[i + 1] \in PassThroughEscapes
            \/ s[i + 1] = "b" /\ ~inClass
         /\ SafeScan(s, i + 2, depth, inClass)
    ELSE IF s[i] = "<C3>"
    THEN i + 1 <= Len(s) /\ s[i + 1] = "<A9>" /\ SafeScan(s, i + 2, depth, inClass)
    ELSE IF s[i] \in NonASCIIBytes
    THEN FALSE
    ELSE IF inClass
    THEN SafeScan(s, i + 1, depth, s[i] # "]")
    ELSE CASE s[i] = "[" -> SafeScan(s, i + 1, depth, TRUE)
           [] s[i] = "(" ->
                /\ i + 2 <= Len(s) /\ s[i + 1] = "?" /\ s[i + 2] = ":"
                /\ SafeScan(s, i + 3, depth + 1, FALSE)
           [] s[i] = ")" -> depth > 0 /\ SafeScan(s, i + 1, depth - 1, FALSE)
           [] s[i] = "]" -> FALSE
           [] OTHER -> SafeScan(s, i + 1, depth, FALSE)

SafeSubset(s) == SafeScan(s, 1, 0, FALSE)

\* C5: a pattern of the safe subset is returned unchanged, with a nil error.
C5_SafeSubsetUnchanged ==
    (Returned /\ SafeSubset(pattern)) => (ret.str = pattern /\ ret.err = Nil)

\* A class holding an escape and a '(' inside a non-capturing group, then an
\* alternative with \b, a literal and an operator.
C5_Witness ==
    /\ Returned
    /\ pattern = <<"(", "?", ":", "[", "\\", "d", "(", "]", "|", "\\", "b", ")",
                   "a", "*">>
    /\ SafeSubset(pattern)
    /\ ret.str = pattern
    /\ ret.err = Nil

--------------------------------------------------------------------------
(* Escapes, read off the pattern text: the pattern is a context's opening, *)
(* a '\', a body and the context's closing; the body is the escape and     *)
(* plain characters after it.                                              *)

HexDigitChars ==
    {"0", "1", "2", "3", "4", "5", "6", "7", "8", "9",
     "a", "b", "c", "d", "e", "f", "A", "B", "C", "D", "E", "F"}

OctalDigitChars == {"0", "1", "2", "3", "4", "5", "6", "7"}

DecimalDigitChars == OctalDigitChars \cup {"8", "9"}

\* Characters that every scan loop passes on unchanged.
IsPlain(s) ==
    \A i \in 1..Len(s) : s[i] \notin {"\\", "(", ")", "[", "]"} \cup NonASCIIBytes

HasEscapeIn(s, c) ==
    /\ Len(s) >= Len(c.open) + 1 + Len(c.close)
    /\ SubSeq(s, 1, Len(c.open)) = c.open
    /\ s[Len(c.open) + 1] = "\\"
    /\ SubSeq(s, Len(s) - Len(c.close) + 1, Len(s)) = c.close

BodyIn(s, c) == SubSeq(s, Len(c.open) + 2, Len(s) - Len(c.close))

From(s, i) == SubSeq(s, i, Len(s))

InClass(c) == c.open # <<>> /\ c.open[Len(c.open)] = "["

\* TransformRegExp returned c.open, out, c.close and recorded no error.
Rewritten(c, out) ==
    /\ ret.str = c.open \o out \o c.close
    /\ ret.err = Nil
    /\ re.errors = <<>>
    /\ ~re.invalid

\* The body b is an escape of n characters and plain text after it.
EscapeOf(b, n) == Len(b) >= n /\ IsPlain(From(b, n + 1))

\* C6: \u and four hex digits become \x{....}, \x and two hex digits stay as
\* they are; the characters after the digits are passed on, no error is
\* recorded and invalid stays unset, in every context.
C6_HexEscapes ==
    \A c \in EscapeContexts :
        (Returned /\ HasEscapeIn(pattern, c)) =>
            LET b == BodyIn(pattern, c) IN
            /\ (/\ EscapeOf(b, 5) /\ b[1] = "u"
                /\ \A i \in 2..5 : b[i] \in HexDigitChars)
                 => Rewritten(c, <<"\\", "x", "{">> \o SubSeq(b, 2, 5) \o <<"}">>
                                  \o From(b, 6))
            /\ (/\ EscapeOf(b, 3) /\ b[1] = "x"
                /\ \A i \in 2..3 : b[i] \in HexDigitChars)
                 => Rewritten(c, <<"\\">> \o b)

\* A \u escape and one more hex digit in a class in a group.
C6_Witness ==
    /\ Returned
    /\ pattern = <<"(", "?", ":", "[", "\\", "u", "0", "b", "F", "0", "b", "]", ")">>
    /\ ret.str = <<"(", "?", ":", "[", "\\", "x", "{", "0", "b", "F", "0", "}", "b",
                   "]", ")">>
    /\ ret.err = Nil

\* C7: \b becomes \x08 exactly in a character class and stays \b elsewhere;
\* no error is recorded.
C7_BackspaceInClass ==
    \A c \in EscapeContexts :
        (Returned /\ HasEscapeIn(pattern, c)) =>
            LET b == BodyIn(pattern, c) IN
            (EscapeOf(b, 1) /\ b[1] = "b") =>
                Rewritten(c, IF InClass(c)
                             THEN <<"\\", "x", "0", "8">> \o From(b, 2)
                             ELSE <<"\\">> \o b)

C7_Witness ==
    /\ Returned
    /\ pattern = <<"(", "a", "(", "[", "\\", "b", "a", "]", ")", ")">>
    /\ ret.str = <<"(", "a", "(", "[", "\\", "x", "0", "8", "a", "]", ")", ")">>
    /\ ret.err = Nil

\* The body b starts with \0 and no octal digit follows.
LoneZero(b) ==
    /\ EscapeOf(b, 1) /\ b[1] = "0"
    /\ (Len(b) >= 2 => b[2] \notin OctalDigitChars)

\* C8 as stated: \0 not followed by an octal digit becomes \x00.
C8_ZeroBecomesHex ==
    \A c \in EscapeContexts :
        (Returned /\ HasEscapeIn(pattern, c) /\ LoneZero(BodyIn(pattern, c))) =>
            Rewritten(c, <<"\\", "x", "0", "0">> \o From(BodyIn(pattern, c), 2))

\* C8, amended: \0 not followed by an octal digit is emitted unchanged, as \0,
\* and no error is recorded.
C8_ZeroUnchanged ==
    \A c \in EscapeContexts :
        (Returned /\ HasEscapeIn(pattern, c) /\ LoneZero(BodyIn(pattern, c))) =>
            Rewritten(c, <<"\\">> \o BodyIn(pattern, c))

C8_Witness ==
    /\ Returned
    /\ pattern = <<"[", "\\", "0", "8", "]">>
    /\ ret.str = pattern
    /\ re.errors = <<>>

\* The number of leading characters of b that are in S.
RECURSIVE RunLength(_, _)
RunLength(b, S) ==
    IF b # <<>> /\ Head(b) \in S THEN 1 + RunLength(Tail(b), S) ELSE 0

RefDigits == <<"0", "1", "2", "3", "4", "5", "6", "7", "8", "9",
               "a", "b", "c", "d", "e", "f">>

RefDigitValue(ch) == (CHOOSE i \in 1..Len(RefDigits) : RefDigits[i] = ch) - 1

\* The value of the octal numeral d.
RECURSIVE OctalValue(_)
OctalValue(d) ==
    IF d = <<>> THEN 0
    ELSE 8 * OctalValue(SubSeq(d, 1, Len(d) - 1)) + RefDigitValue(d[Len(d)])

\* C9 as stated: two or three octal digits become \x and exactly two hex digits
\* giving their value; at most three digits are consumed and what follows,
\* a fourth digit included, is passed on; no error is recorded.
C9_OctalAtMostThreeDigits ==
    \A c \in EscapeContexts :
        (Returned /\ HasEscapeIn(pattern, c)) =>
            LET b == BodyIn(pattern, c)
                k == RunLength(b, OctalDigitChars)
                n == IF k > 3 THEN 3 ELSE k
                v == OctalValue(SubSeq(b, 1, n))
            IN (k >= 2 /\ EscapeOf(b, n)) =>
                   /\ v < 256
                   /\ Rewritten(c, <<"\\", "x", RefDigits[(v \div 16) + 1],
                                     RefDigits[(v % 16) + 1]>> \o From(b, n + 1))

\* The backreference error naming the digits d.
IsBackreferenceError(e, d) ==
    /\ e.msg \in {"re2: Invalid \\%d <backreference>",
                  "re2: Invalid \\%s <backreference>"}
    /\ e.arg = d

\* TransformRegExp returned the pattern itself and recorded one error, naming
\* a backreference and the digits d; invalid is unset.
FlaggedBackreference(d) ==
    /\ ret.str = pattern
    /\ Len(re.errors) = 1
    /\ IsBackreferenceError(re.errors[1], d)
    /\ ret.err = re.errors[1]
    /\ ~re.invalid

\* C10: one digit 1..7 not followed by an octal digit, and a run of decimal
\* digits starting with 8 or 9, are emitted unchanged, record an error naming a
\* backreference and the digits, and leave invalid unset.
C10_BackreferencePreserved ==
    \A c \in EscapeContexts :
        (Returned /\ HasEscapeIn(pattern, c)) =>
            LET b == BodyIn(pattern, c)
                n == RunLength(b, DecimalDigitChars)
            IN /\ (/\ EscapeOf(b, 1)
                   /\ b[1] \in OctalDigitChars \ {"0"}
                   /\ RunLength(b, OctalDigitChars) = 1)
                    => FlaggedBackreference(<<b[1]>>)
               /\ (/\ EscapeOf(b, n)
                   /\ n >= 1
                   /\ b[1] \in {"8", "9"})
                    => FlaggedBackreference(SubSeq(b, 1, n))

\* \8 followed by more decimal digits and a letter, in a class in a group.
C10_Witness ==
    /\ Returned
    /\ pattern = <<"(", "?", ":", "[", "\\", "8", "1", "9", "a", "]", ")">>
    /\ ret.str = pattern
    /\ ret.err = Errorf("re2: Invalid \\%s <backreference>", <<"8", "1", "9">>)


--------------------------------------------------------------------------
IsPrefix(s, t) == Len(s) <= Len(t) /\ SubSeq(t, 1, Len(s)) = s

Parsed == pc = "parsed"

\* C4: the error lists of a parse and of a regex transform only ever grow at
\* the end; parse() returns the Program and the earliest recorded error, nil
\* exactly when none was recorded; TransformRegExp returns the earliest
\* recorded error, nil exactly when none was recorded, whether or not the
\* invalid flag is set.
C4_FirstErrorReturned ==
    /\ [][/\ IsPrefix(parser.errors, parser'.errors)
          /\ IsPrefix(re.errors, re'.errors)]_vars
    /\ [](Parsed =>
            /\ parseRet.program
            /\ (parseRet.err = NilError) <=> (parser.errors = <<>>)
            /\ parser.errors # <<>> => parseRet.err = parser.errors[1])
    /\ [](Returned =>
            /\ (ret.err = Nil) <=> (re.errors = <<>>)
            /\ re.errors # <<>> => ret.err = re.errors[1])

\* A lookahead is recorded first and an unmatched ')' later sets invalid:
\* the lookahead's error is the one returned.
C4_Witness ==
    /\ Returned
    /\ re.invalid
    /\ Len(re.errors) >= 2
    /\ re.errors[1].msg = "re2: Invalid (%s) <lookahead>"
    /\ re.errors[Len(re.errors)].msg = "Unmatched ')'"
    /\ ret.err = re.errors[1]

\* A parse that recorded two different errors has returned.
C4_ParseWitness ==
    /\ Parsed
    /\ Len(parser.errors) >= 2
    /\ parser.errors[1] # parser.errors[Len(parser.errors)]
    /\ parseRet.err = parser.errors[1]

--------------------------------------------------------------------------
\* C11: every error recorded while parsing ParseFile(fileSet, filename, src,
\* mode) has Position.Filename equal to filename, its rendering starts with
\* that filename, and "(anonymous)" is rendered only when filename is empty.
C11_FilenameLabelsErrors ==
    \A i \in 1..Len(parser.errors) :
        /\ parser.errors[i].Position.Filename = args.filename
        /\ args.filename # "" =>
               Error_Error(parser.errors[i]).filename = args.filename
        /\ Error_Error(parser.errors[i]).filename = "(anonymous)" =>
               args.filename = ""

--------------------------------------------------------------------------
(* Line and column of a byte offset, from the text alone *)

\* The offsets below offset at which a line terminator ends.
TerminatorEnds(str, offset) ==
    {i \in 0..(offset - 1) :
        \/ At(str, i) \in {"\r", "\n"}
        \/ /\ i >= 2
           /\ At(str, i - 2) = "<E2>" /\ At(str, i - 1) = "<80>"
           /\ At(str, i) \in {"<A8>", "<A9>"}}

\* A line feed right after a carriage return ends the same line.
LineEnds(str, offset) ==
    {i \in TerminatorEnds(str, offset) :
        ~(At(str, i) = "\n" /\ i >= 1 /\ At(str, i - 1) = "\r")}

RefPosition(str, offset) ==
    LET ends == TerminatorEnds(str, offset) IN
    [Line |-> 1 + Cardinality(LineEnds(str, offset)),
     Column |-> IF ends = {} THEN 1 + offset
                ELSE offset - (CHOOSE i \in ends : \A j \in ends : j <= i)]

\* parseProgram reports the EOF token as unexpected: error() is called with
\* Idx zero.
ReportsEOF ==
    /\ pc = "parseProgram"
    /\ parser.token = "EOF"
    /\ Len(parser'.errors) > Len(parser.errors)

\* C12 as stated: an error recorded with Idx zero, such as the one for an
\* unexpected EOF token, gets Line 1, Column 1 and is rendered as Line 1:1,
\* whatever the source and the scanner's offset.
C12_ZeroIsLineOneColumnOne ==
    [][ReportsEOF =>
         LET e == parser'.errors[Len(parser.errors) + 1] IN
         /\ e.msg = "Unexpected end of input"
         /\ Error_Error(e).Line = 1
         /\ Error_Error(e).Column = 1]_vars

\* C12, corrected: an error recorded with Idx zero gets the line and column
\* of the scanner's current offset, which for an EOF token is the end of the
\* source; it is Line 1:1 only when that offset is 0.
C12_ZeroIsCurrentOffset ==
    [][ReportsEOF =>
         LET e == parser'.errors[Len(parser.errors) + 1]
             ref == RefPosition(parser.str, parser.chrOffset) IN
         /\ e.msg = "Unexpected end of input"
         /\ parser.chrOffset = parser.length
         /\ Error_Error(e).Line = ref.Line
         /\ Error_Error(e).Column = ref.Column
         /\ (e.Position.Line = 1 /\ e.Position.Column = 1)
                <=> parser.chrOffset = 0]_vars

\* The end of "a\nb" was reported as unexpected: Line 2:2.
C12_Witness ==
    /\ args.src = <<"a", "\n", "b">>
    /\ parser.token = "EOF"
    /\ \E i \in 1..Len(parser.errors) :
           /\ parser.errors[i].msg = "Unexpected end of input"
           /\ parser.errors[i].Position.Line = 2
           /\ parser.errors[i].Position.Column = 2

--------------------------------------------------------------------------
CallReturned(i) == ottoRuns # <<>> /\ ottoRuns[i].pc = "returned"

\* C13: when the source passed to Otto.Call begins with "new ", two calls
\* that differ only in the this argument return the same value and the same
\* error.
C13_ThisHasNoEffect ==
    (/\ HasPrefix(ottoCall.source, <<"n", "e", "w", " ">>)
     /\ CallReturned(1) /\ CallReturned(2))
        => /\ ottoRuns[1].value = ottoRuns[2].value
           /\ ottoRuns[1].err = ottoRuns[2].err

\* C19: one Otto.Call with this == nil and a source not starting with "new "
\* invokes the target function at most once, also when the first attempt
\* had started evaluating the call and ended with an error.
C19_InvokedAtMostOnce ==
    \A i \in DOMAIN ottoRuns :
        (/\ ottoRuns[i].this = "nil"
         /\ ~HasPrefix(ottoCall.source, <<"n", "e", "w", " ">>))
            => ottoRuns[i].invocations <= 1

--------------------------------------------------------------------------
(* What a helper of the parser did to the error list and to the token *)

NewErrors(p, q) == SubSeq(q.errors, Len(p.errors) + 1, Len(q.errors))

\* The result of scan() that leaves the parser at the token of q.
ScanResultOf(p, q) ==
    [token |-> q.token, start |-> q.idx - p.base, end |-> q.chrOffset,
     implicit |-> q.implicitSemicolon]

\* q is p moved to the next token, whatever was recorded on the way.
AdvancedOneToken(p, q) ==
    /\ ScanResultOf(p, q) \in ScanResults(p)
    /\ [q EXCEPT !.errors = <<>>] =
           [next(p, ScanResultOf(p, q)) EXCEPT !.errors = <<>>]

\* The results of scan() with which a helper can have taken p to q: the one
\* q shows, and any one if the helper did not scan.
ScanResultsBetween(p, q) ==
    ({ScanResultOf(p, q)} \cap ScanResults(p))
        \cup {[token |-> "EOF", start |-> p.length, end |-> p.length,
               implicit |-> FALSE]}

\* The step is a call of optionalSemicolon() by parseProgram.
OptionalSemicolonStep ==
    /\ pc = "parseProgram"
    /\ calls' = calls + 1
    /\ \E r \in ScanResultsBetween(parser, parser') :
           parser' = optionalSemicolon(parser, r)

\* The errors the scanner reports for the token q stands at.
ScannerReports(q) ==
    IF q.token = "ILLEGAL"
    THEN <<[msg |-> "Unexpected token %v", arg |-> <<"ILLEGAL">>,
            Position |-> position(q, q.idx)]>>
    ELSE <<>>

\* The error for the current token of p being unexpected.
IsUnexpectedToken(p, e) ==
    /\ e.msg \in {"Unexpected token %v", "Unexpected identifier",
                  "Unexpected number", "Unexpected string"}
    /\ e.Position = position(p, p.idx)

\* C14 as stated: on an explicit ';' optionalSemicolon advances one token and
\* records no error; otherwise on a latched implicitSemicolon it clears the
\* flag, consumes nothing and records no error; otherwise on EOF or '}' it
\* changes nothing; otherwise it records exactly one unexpected-token error
\* and advances one token.
C14_OptionalSemicolonCases ==
    [][OptionalSemicolonStep =>
         IF parser.token = ";"
         THEN AdvancedOneToken(parser, parser') /\ NewErrors(parser, parser') = <<>>
         ELSE IF parser.implicitSemicolon
         THEN parser' = [parser EXCEPT !.implicitSemicolon = FALSE]
         ELSE IF parser.token \in {"EOF", "}"}
         THEN parser' = parser
         ELSE /\ AdvancedOneToken(parser, parser')
              /\ Len(NewErrors(parser, parser')) = 1
              /\ IsUnexpectedToken(parser, NewErrors(parser, parser')[1])]_vars

\* C14, corrected: the same four cases, where "no error" and "exactly one
\* error" count what optionalSemicolon and expect report themselves; when it
\* advances, the scanner's report of an ILLEGAL next token is recorded after
\* them.
C14_OptionalSemicolonOwnErrors ==
    [][OptionalSemicolonStep =>
         IF parser.token = ";"
         THEN /\ AdvancedOneToken(parser, parser')
              /\ NewErrors(parser, parser') = ScannerReports(parser')
         ELSE IF parser.implicitSemicolon
         THEN parser' = [parser EXCEPT !.implicitSemicolon = FALSE]
         ELSE IF parser.token \in {"EOF", "}"}
         THEN parser' = parser
         ELSE /\ AdvancedOneToken(parser, parser')
              /\ Len(NewErrors(parser, parser')) >= 1
              /\ IsUnexpectedToken(parser, NewErrors(parser, parser')[1])
              /\ Tail(NewErrors(parser, parser')) = ScannerReports(parser')]_vars

\* An identifier where a semicolon was required, followed by an ILLEGAL
\* token: the error for the identifier and then the scanner's report.
C14_Witness ==
    /\ pc = "parseProgram"
    /\ calls = 1
    /\ parser.token = "ILLEGAL"
    /\ Len(parser.errors) = 2
    /\ parser.errors[1].msg = "Unexpected identifier"
    /\ parser.errors[2].msg = "Unexpected token %v"

--------------------------------------------------------------------------
\* The step is a call of semicolon() by parseProgram.
SemicolonStep ==
    /\ pc = "parseProgram"
    /\ calls' = calls + 1
    /\ \E r \in ScanResultsBetween(parser, parser') :
           parser' = semicolon(parser, r)

\* Going from p to q the helper reported no error itself: nothing was
\* recorded apart from what the scanner reports for the token advanced to.
ReportsNothingItself(p, q) ==
    \/ NewErrors(p, q) = <<>>
    \/ AdvancedOneToken(p, q) /\ NewErrors(p, q) = ScannerReports(q)

\* optionalSemicolon() reports no error itself in the state p.
OptionalSemicolonTolerates(p) ==
    \A r \in ScanResults(p) : ReportsNothingItself(p, optionalSemicolon(p, r))

\* C15 as stated: in every state in which optionalSemicolon() records no
\* error, and whenever the current token is ')', semicolon() records no
\* error.
C15_SemicolonToleratesSuperset ==
    [][(SemicolonStep /\ (OptionalSemicolonTolerates(parser) \/ parser.token = ")"))
          => ReportsNothingItself(parser, parser')]_vars

\* C15, corrected: semicolon() reports no error exactly on ';', ')', '}' or
\* a latched implicitSemicolon; the end of input, which optionalSemicolon()
\* lets pass, is reported as 'Unexpected end of input' unless the flag is
\* latched.
C15_SemicolonNotAtEOF ==
    [][SemicolonStep =>
         /\ ReportsNothingItself(parser, parser')
                <=> (parser.token \in {";", ")", "}"} \/ parser.implicitSemicolon)
         /\ (parser.token = "EOF" /\ ~parser.implicitSemicolon)
                => /\ OptionalSemicolonTolerates(parser)
                   /\ Len(NewErrors(parser, parser')) = 1
                   /\ NewErrors(parser, parser')[1].msg = "Unexpected end of input"]_vars

\* The end of input was reported where a semicolon was required.
C15_Witness ==
    /\ pc = "parseProgram"
    /\ calls = 1
    /\ parser.token = "EOF"
    /\ ~parser.implicitSemicolon
    /\ Len(parser.errors) = 1
    /\ parser.errors[1].msg = "Unexpected end of input"

--------------------------------------------------------------------------
\* The characters after '\' that have a row of their own in the escape table.
DedicatedRows ==
    DecimalDigitChars \cup
    {"x", "u", "b", "B", "d", "D", "s", "S", "w", "W", "\\", "f", "n", "r", "t",
     "v", "c"}

\* ASCII identifier-part characters of ECMAScript.
IdentifierPartChars ==
    {"$", "_"} \cup DecimalDigitChars
        \cup {LowerLetters[i] : i \in 1..26} \cup {UpperLetters[i] : i \in 1..26}

\* C16: an escaped character with no row of its own keeps its backslash if it
\* is '$' or no identifier-part character and loses it otherwise; the
\* characters after it are passed on and no error is recorded.  U+00E9, a
\* letter, is an identifier-part character of two bytes.
C16_DefaultEscape ==
    \A c \in EscapeContexts :
        (Returned /\ HasEscapeIn(pattern, c)) =>
            LET b == BodyIn(pattern, c) IN
            /\ (EscapeOf(b, 1) /\ b[1] \notin DedicatedRows \cup NonASCIIBytes)
                 => Rewritten(c, IF b[1] = "$" \/ b[1] \notin IdentifierPartChars
                                 THEN <<"\\">> \o b
                                 ELSE b)
            /\ (EscapeOf(b, 2) /\ SubSeq(b, 1, 2) = <<"<C3>", "<A9>">>)
                 => Rewritten(c, b)

\* \_ in a class in a group loses its backslash, and the 'a' after it stays.
C16_Witness ==
    /\ Returned
    /\ pattern = <<"(", "?", ":", "[", "\\", "_", "a", "]", ")">>
    /\ ret.str = <<"(", "?", ":", "[", "_", "a", "]", ")">>
    /\ ret.err = Nil

\* \$ at top level keeps its backslash.
C16_WitnessDollar ==
    /\ Returned
    /\ pattern = <<"\\", "$", "a">>
    /\ ret.str = pattern
    /\ ret.err = Nil

--------------------------------------------------------------------------
\* One iteration of the loop of scan, scanGroup or scanBracket.
LoopIteration == scan \/ scanGroup \/ scanBracket

\* C17: TransformRegExp terminates on every pattern: the read offset never
\* decreases, every iteration of the loops of scan, scanGroup and scanBracket
\* consumes at least one character, and when TransformRegExp returns the
\* current character is the end of input (the empty pattern is returned
\* before anything is scanned).
C17_Terminates ==
    /\ [][/\ re'.offset >= re.offset
          /\ re'.chrOffset >= re.chrOffset
          /\ LoopIteration => re'.chrOffset > re.chrOffset]_vars
    /\ [](Returned =>
            /\ stack = <<>>
            /\ pattern # <<>> =>
                   /\ re.chr = EOF
                   /\ re.chrOffset = Len(pattern)
                   /\ re.offset = Len(pattern))
    /\ <>Returned

\* \c before a character that is no letter, in a class in a group: 'c' is
\* written, the character is left to the loop of scanBracket, and the call
\* has returned.
C17_Witness ==
    /\ Returned
    /\ pattern = <<"(", "?", ":", "[", "\\", "c", "<A9>", "]", ")">>
    /\ re.chr = EOF
    /\ re.offset = Len(pattern)

--------------------------------------------------------------------------
\* C18: TransformRegExp returns the empty string exactly when the pattern is
\* empty, with a nil error, or the invalid flag was set, with a non-nil
\* error; whenever invalid is set the error list is not empty; every
\* non-empty pattern that is not invalid yields a non-empty rewrite.
C18_EmptyStringUnambiguous ==
    Returned =>
        /\ (ret.str = <<>>) <=> (pattern = <<>> \/ re.invalid)
        /\ pattern = <<>> => ret.err = Nil
        /\ re.invalid => (re.errors # <<>> /\ ret.err # Nil)
        /\ (pattern # <<>> /\ ~re.invalid) => Len(ret.str) >= 1

\* A lone backslash is not invalid and comes back as itself.
C18_Witness ==
    /\ Returned
    /\ pattern = <<"\\">>
    /\ ~re.invalid
    /\ ret.str = <<"\\">>
    /\ ret.err = Nil

======================================================================
